---- MODULE Spec2Model ----
(***************************************************************************)
(* A model of the word-cloud pipeline of wordcloud_minimal.py: the record  *)
(* store merge, the frequency extraction, the frequency cache, the cache / *)
(* extraction selection of main, and the two rendering strategies of       *)
(* generate_images.                                                        *)
(*                                                                         *)
(* Text is a sequence of one-character strings, so that tokenisation,      *)
(* lower-casing and the readers' treatment of particular cell values are   *)
(* computed and not assumed.                                               *)
(***************************************************************************)
EXTENDS Integers, Sequences, FiniteSets, TLC

VARIABLES
    store,      \* data/records.csv: [exists, readable, rows]
    pre,        \* the store as it was when the last merge started
    batch,      \* new_entries of the last merge
    path,       \* which reader the last operation used: "none", "pandas", "csv"
    cache,      \* data/frequencies.json: [kind, terms]
    bib,        \* the entries the .bib files of the data directory hold
    env,        \* the installed packages and the output directory
    pc,         \* the position of the running call
    counter,    \* the term -> count mapping in hand (an ordered mapping)
    extracted,  \* whether load_records_and_build ran in this run
    res,        \* what generate_images returned
    rc,         \* how main ended: "none" (it has not), "0", "1" or "raised"
    png,        \* whether outputs/nube_palabras.png was written by this call
    tried,      \* the rendering strategies attempted, in order
    sizes,      \* the font sizes of the fallback layout, one per selected term
    lay,        \* the fallback's packing loop: its items, cursor and drawn items
    inv,        \* the concurrent invocations of the merge, each with what it read
    serial,     \* whether no invocation has started while another was under way
    runs        \* how many runs of main have been started on the data directory

vars == <<store, pre, batch, path, cache, bib, env, pc, counter, extracted,
          res, rc, png, tried, sizes, lay, inv, serial, runs>>

mergeVars == <<store, pre, batch, path>>
runVars == <<cache, bib, env, pc, counter, extracted, res, rc, png, tried, sizes>>
extraVars == <<lay, inv, serial, runs>>

(***************************************************************************)
(* Bounds of the model.                                                    *)
(***************************************************************************)
MaxBatch == 2
MaxStore == 3

(***************************************************************************)
(* Text values.                                                            *)
(***************************************************************************)
Empty == <<>>
NA == <<"N", "A">>
IdA == <<"a">>
IdB == <<"b">>
TitleX == <<"x">>
TitleY == <<"y">>
AbsData == <<"d", "e", "e", "p">>
KwAi == <<"a", "i">>
WLearning == <<"l", "e", "a", "r", "n", "i", "n", "g">>
WMachine == <<"m", "a", "c", "h", "i", "n", "e">>
WModels == <<"m", "o", "d", "e", "l", "s">>
WDeep == <<"d", "e", "e", "p">>
WNetworks == <<"n", "e", "t", "w", "o", "r", "k", "s">>
WAi == <<"a", "i">>

Fields == {"id", "title", "abstract", "keywords"}

\* The cell values pandas.read_csv reads as missing (its default NA strings,
\* those the model's alphabet can spell); fillna('') turns them into ''.
NAValues == {Empty, NA, <<"n", "u", "l", "l">>, <<"n", "a", "n">>}

Ids(rows) == {rows[i].id : i \in 1..Len(rows)}

NoFile == [exists |-> FALSE, readable |-> TRUE, rows |-> <<>>]

(***************************************************************************)
(* merge_new_entries_into_records                                          *)
(***************************************************************************)

\* df = pd.read_csv(records_path, dtype=str).fillna(''): every cell that
\* spells an NA value comes back as the empty string.
PandasCell(v) == IF v \in NAValues THEN Empty ELSE v

PandasRead(rows) ==
    [i \in 1..Len(rows) |-> [f \in Fields |-> PandasCell(rows[i][f])]]

\* csv.DictReader: the cells as written.
CsvRead(rows) == rows

\* The value a dict comprehension keeps for key k: the last entry with it.
LastWithId(entries, k) ==
    entries[CHOOSE i \in 1..Len(entries) :
                /\ entries[i].id = k
                /\ \A j \in (i+1)..Len(entries) : entries[j].id # k]

\* The first entry with key k: what a first-seen-wins merge would keep.
FirstWithId(entries, k) ==
    entries[CHOOSE i \in 1..Len(entries) :
                /\ entries[i].id = k
                /\ \A j \in 1..(i-1) : entries[j].id # k]

\* The positions of new_entries that introduce a key, in order.
KeyPositions(entries) ==
    SelectSeq([i \in 1..Len(entries) |-> i],
              LAMBDA i : \A j \in 1..(i-1) : entries[j].id # entries[i].id)

\* The keys in the order they are first seen, each with the value of its
\* first occurrence.
NewByIdFirstValue(entries) ==
    [n \in 1..Len(KeyPositions(entries)) |->
        FirstWithId(entries, entries[KeyPositions(entries)[n]].id)]

\* new_by_id = {e['id']: e for e in new_entries}: the keys in the order they
\* are first seen, each with the value of its last occurrence.
NewById(entries) ==
    [n \in 1..Len(KeyPositions(entries)) |->
        LastWithId(entries, entries[KeyPositions(entries)[n]].id)]

\* The loop over new_by_id.items(): the rows appended, those whose id is not
\* among the ids read from the store.
AppendedRows(rows, entries) ==
    SelectSeq(NewById(entries), LAMBDA e : e.id \notin Ids(rows))

\* The pandas branch: read, append, and write only when something was added.
MergedPandas(st, entries) ==
    LET rows == IF st.exists THEN PandasRead(st.rows) ELSE <<>>
        new == AppendedRows(rows, entries)
    IN  IF Len(new) > 0
        THEN [exists |-> TRUE, readable |-> TRUE, rows |-> rows \o new]
        ELSE st

\* The csv branch: read, append, and always write back.
MergedCsv(st, entries) ==
    LET rows == IF st.exists THEN CsvRead(st.rows) ELSE <<>>
        new == AppendedRows(rows, entries)
    IN  [exists |-> TRUE, readable |-> TRUE, rows |-> rows \o new]

\* What parse_bib_files can hand to the merge: entries with a non-empty id.
Entries ==
    [id : {IdA, IdB}, title : {TitleX, TitleY}, abstract : {AbsData},
     keywords : {KwAi}]
    \cup [id : {NA}, title : {TitleX}, abstract : {AbsData}, keywords : {KwAi}]
    \cup [id : {IdB}, title : {TitleX}, abstract : {NA}, keywords : {KwAi}]

SeqsUpTo(S, n) == UNION {[1..k -> S] : k \in 0..n}

Batches == SeqsUpTo(Entries, MaxBatch) \ {<<>>}

\* The environment of a call: the packages that import, whether the cache file
\* can be written, the state of the output directory, whether the PDF export
\* works, and whether a nube_palabras.pdf is already there.
QuietEnv ==
    [pandas |-> FALSE, bibtex |-> FALSE, wordcloud |-> FALSE, pillow |-> "none",
     cacheWritable |-> TRUE, outDir |-> "exists", pdf |-> FALSE,
     pdfFile |-> FALSE]

NoLayout ==
    [items |-> <<>>, i |-> 1, x |-> 0, y |-> 0, maxRowH |-> 0, drawn |-> <<>>,
     stopped |-> FALSE]

\* The history of the runs: how many were started, whether one has returned
\* 0 after writing a non-empty cache that is still there, that cache, and
\* the number of rows the store had when the next run started.
NoRuns ==
    [n |-> 0, succeeded |-> FALSE,
     sticky |-> [kind |-> "missing", terms |-> <<>>], rowsThen |-> 0]

ExtraIdle ==
    /\ lay = NoLayout
    /\ inv = <<>>
    /\ serial = TRUE
    /\ runs = NoRuns

RunIdle ==
    /\ ExtraIdle
    /\ cache = [kind |-> "missing", terms |-> <<>>]
    /\ bib = <<>>
    /\ env = QuietEnv
    /\ pc = "idle"
    /\ counter = <<>>
    /\ extracted = FALSE
    /\ res = [png |-> FALSE, pdf |-> FALSE, method |-> "none"]
    /\ rc = "none"
    /\ png = FALSE
    /\ tried = <<>>
    /\ sizes = <<>>

InitMerge ==
    /\ store = NoFile
    /\ pre = NoFile
    /\ batch = <<>>
    /\ path = "none"
    /\ RunIdle

\* merge_new_entries_into_records where pandas imports and reads the store.
MergePandas(entries) ==
    /\ UNCHANGED extraVars
    /\ Len(MergedPandas(store, entries).rows) <= MaxStore
    /\ store' = MergedPandas(store, entries)
    /\ pre' = store
    /\ batch' = entries
    /\ path' = "pandas"
    /\ UNCHANGED runVars

\* merge_new_entries_into_records where the pandas branch raised (no pandas,
\* or a store it cannot read) and the csv module does the work.
MergeCsv(entries) ==
    /\ UNCHANGED extraVars
    /\ Len(MergedCsv(store, entries).rows) <= MaxStore
    /\ store' = MergedCsv(store, entries)
    /\ pre' = store
    /\ batch' = entries
    /\ path' = "csv"
    /\ UNCHANGED runVars

NextMerge ==
    \E entries \in Batches : MergePandas(entries) \/ MergeCsv(entries)

SpecMerge == InitMerge /\ [][NextMerge]_vars

(***************************************************************************)
(* load_records_and_build: the tokeniser, the stopword filter, the count.  *)
(***************************************************************************)
UpperCase ==
    <<"A", "B", "C", "D", "E", "F", "G", "H", "I", "J", "K", "L", "M",
      "N", "O", "P", "Q", "R", "S", "T", "U", "V", "W", "X", "Y", "Z">>
LowerCase ==
    <<"a", "b", "c", "d", "e", "f", "g", "h", "i", "j", "k", "l", "m",
      "n", "o", "p", "q", "r", "s", "t", "u", "v", "w", "x", "y", "z">>
Digits == {"0", "1", "2", "3", "4", "5", "6", "7", "8", "9"}
Punct == {"-", "'"}
Blank == {" "}

\* str.lower(), one character at a time.
LowerChar(c) ==
    IF \E i \in 1..Len(UpperCase) : UpperCase[i] = c
    THEN LowerCase[CHOOSE i \in 1..Len(UpperCase) : UpperCase[i] = c]
    ELSE c

Lower(s) == [i \in 1..Len(s) |-> LowerChar(s[i])]

\* \w: a letter, a digit or the underscore (whatever is no blank and none of
\* the two punctuation marks the character class adds).
WordChar(c) == c \notin (Punct \cup Blank)

IsW(s, i) == i >= 1 /\ i <= Len(s) /\ WordChar(s[i])

\* \b after position i: exactly one of s[i], s[i+1] is a word character.
Boundary(s, i) == IsW(s, i) # IsW(s, i + 1)

\* [\w'-]
InClass(s, i) == i >= 1 /\ i <= Len(s) /\ (WordChar(s[i]) \/ s[i] \in Punct)

\* A pattern that would take two characters: {2,}.
ShortTokenLen == 3 - 1

\* The {3,} of the pattern.
MinTokenLen == 3

\* Where the longest run of class characters starting at p ends.
RunEnd(s, p) ==
    CHOOSE r \in (p - 1)..Len(s) :
        /\ \A k \in p..r : InClass(s, k)
        /\ ~InClass(s, r + 1)

\* The ends a match starting at p may have: at least three characters of the
\* class, then a boundary.
MatchEnds(s, p) ==
    {e \in (p + MinTokenLen - 1)..RunEnd(s, p) : Boundary(s, e)}

Max(S) == CHOOSE m \in S : \A x \in S : x <= m
Min(S) == CHOOSE m \in S : \A x \in S : m <= x

\* word_re.findall(s) from position p on: leftmost match, greedy, backing
\* off to the longest length that ends on a boundary.
RECURSIVE FindAll(_, _)
FindAll(s, p) ==
    IF p > Len(s) THEN <<>>
    ELSE IF Boundary(s, p - 1) /\ MatchEnds(s, p) # {}
    THEN <<SubSeq(s, p, Max(MatchEnds(s, p)))>>
             \o FindAll(s, Max(MatchEnds(s, p)) + 1)
    ELSE FindAll(s, p + 1)

\* _get_stopwords()
STOP ==
    {<<"t", "h", "e">>, <<"a", "n", "d">>, <<"f", "o", "r">>,
     <<"w", "i", "t", "h">>, <<"t", "h", "a", "t">>, <<"t", "h", "i", "s">>,
     <<"f", "r", "o", "m">>, <<"u", "s", "i", "n", "g">>, <<"u", "s", "e">>,
     <<"r", "e", "s", "e", "a", "r", "c", "h">>, <<"s", "t", "u", "d", "y">>,
     <<"m", "e", "t", "h", "o", "d">>, <<"r", "e", "s", "u", "l", "t", "s">>,
     <<"a", "n", "a", "l", "y", "s", "i", "s">>, <<"b", "a", "s", "e", "d">>,
     <<"d", "a", "t", "a">>, <<"p", "a", "p", "e", "r">>,
     <<"a", "l", "s", "o">>, <<"c", "a", "n">>, <<"w", "i", "l", "l">>,
     <<"t", "h", "e", "s", "e">>, <<"s", "u", "c", "h">>,
     <<"w", "h", "i", "c", "h">>, <<"o", "u", "r">>,
     <<"t", "h", "e", "i", "r">>, <<"b", "e", "t", "w", "e", "e", "n">>,
     <<"t", "h", "a", "n">>}

\* w.isdigit()
IsDigit(w) == Len(w) > 0 /\ \A i \in 1..Len(w) : w[i] \in Digits

\* The tokens that are counted: `if w in STOP or w.isdigit(): continue`.
Kept(w) == ~(w \in STOP \/ IsDigit(w))

\* A Counter is an ordered mapping: a sequence of [word, count] with distinct
\* words, in the order the words were first counted.
Words(c) == {c[i].word : i \in 1..Len(c)}

CountOf(c, w) ==
    IF w \in Words(c)
    THEN c[CHOOSE i \in 1..Len(c) : c[i].word = w].count
    ELSE 0

\* counter[w] += 1
Incr(c, w) ==
    IF w \in Words(c)
    THEN [i \in 1..Len(c) |->
             IF c[i].word = w THEN [c[i] EXCEPT !.count = @ + 1] ELSE c[i]]
    ELSE Append(c, [word |-> w, count |-> 1])

RECURSIVE CountTokens(_, _)
CountTokens(c, toks) ==
    IF toks = <<>> THEN c
    ELSE CountTokens(IF Kept(Head(toks)) THEN Incr(c, Head(toks)) ELSE c,
                     Tail(toks))

\* One record's text: abstract + ' ' + keywords, lower-cased.
TextOf(row) == Lower(row.abstract \o <<" ">> \o row.keywords)

RECURSIVE BuildFrom(_, _)
BuildFrom(c, rows) ==
    IF rows = <<>> THEN c
    ELSE BuildFrom(CountTokens(c, FindAll(TextOf(Head(rows)), 1)), Tail(rows))

\* load_records_and_build where pandas reads the store.
BuildPandas(st) ==
    IF ~st.exists THEN <<>> ELSE BuildFrom(<<>>, PandasRead(st.rows))

\* load_records_and_build where the pandas branch raised: the csv module
\* reads the store, and a store that cannot be read gives an empty Counter.
BuildCsv(st) ==
    IF ~st.exists \/ ~st.readable THEN <<>>
    ELSE BuildFrom(<<>>, CsvRead(st.rows))


(***************************************************************************)
(* Extraction applied to bounded inputs.                                   *)
(***************************************************************************)
MaxText == 3

AbstractA ==
    <<"m", "a", "c", "h", "i", "n", "e", " ", "l", "e", "a", "r", "n", "i",
      "n", "g", " ", "m", "o", "d", "e", "l", "s">>
KeywordsA == <<"a", "i">>
AbstractB ==
    <<"d", "e", "e", "p", " ", "l", "e", "a", "r", "n", "i", "n", "g", " ",
      "n", "e", "t", "w", "o", "r", "k", "s">>
KeywordsB == <<"a", "i", " ", "m", "o", "d", "e", "l", "s">>

ScenarioStore ==
    [exists |-> TRUE, readable |-> TRUE,
     rows |-> <<[id |-> IdA, title |-> Empty, abstract |-> AbstractA,
                 keywords |-> KeywordsA],
                [id |-> IdB, title |-> Empty, abstract |-> AbstractB,
                 keywords |-> KeywordsB]>>]

TextAlphabet == {"a", "n", "d", "A", "1", "-", " "}

OneRowStore(a, k) ==
    [exists |-> TRUE, readable |-> TRUE,
     rows |-> <<[id |-> IdA, title |-> Empty, abstract |-> a, keywords |-> k]>>]

ExtractStores ==
    {ScenarioStore, NoFile, [ScenarioStore EXCEPT !.readable = FALSE]}
    \cup {OneRowStore(a, k) : a \in SeqsUpTo(TextAlphabet, MaxText),
                              k \in {Empty, <<"a", "n", "d">>}}

InitExtract ==
    /\ store \in ExtractStores
    /\ pre = NoFile
    /\ batch = <<>>
    /\ path = "none"
    /\ RunIdle

\* load_records_and_build, the pandas branch running to its return.
LoadPandas ==
    /\ UNCHANGED extraVars
    /\ pc = "idle"
    /\ store.readable
    /\ counter' = BuildPandas(store)
    /\ path' = "pandas"
    /\ pc' = "loaded"
    /\ UNCHANGED <<store, pre, batch, cache, bib, env, extracted, res, rc,
                   png, tried, sizes>>

\* load_records_and_build, the pandas branch raising and the csv branch
\* running to its return.
LoadCsv ==
    /\ UNCHANGED extraVars
    /\ pc = "idle"
    /\ store.exists
    /\ counter' = BuildCsv(store)
    /\ path' = "csv"
    /\ pc' = "loaded"
    /\ UNCHANGED <<store, pre, batch, cache, bib, env, extracted, res, rc,
                   png, tried, sizes>>

NextExtract == LoadPandas \/ LoadCsv

SpecExtract == InitExtract /\ [][NextExtract]_vars


(***************************************************************************)
(* load_frequencies and save_frequencies                                   *)
(***************************************************************************)
\* What data/frequencies.json can hold: nothing (no file), text that is not
\* JSON (a truncated write among them), JSON that is no object, an object
\* without "terms", an object whose "terms" is a number, and an object with a
\* terms mapping.
CacheFile(kind, terms) == [kind |-> kind, terms |-> terms]

NoCache == CacheFile("missing", <<>>)

\* load_frequencies: [raised, terms]. json.load raises on text that is not
\* JSON, and Counter(terms) raises on a number.
LoadFrequencies(c) ==
    CASE c.kind = "missing" -> [raised |-> FALSE, terms |-> <<>>]
      [] c.kind = "invalid" -> [raised |-> TRUE, terms |-> <<>>]
      [] c.kind = "nonobject" -> [raised |-> FALSE, terms |-> <<>>]
      [] c.kind = "noterms" -> [raised |-> FALSE, terms |-> <<>>]
      [] c.kind = "badterms" -> [raised |-> TRUE, terms |-> <<>>]
      [] c.kind = "object" -> [raised |-> FALSE, terms |-> c.terms]

\* save_frequencies: the file becomes an object with the mapping as "terms".
SavedFrequencies(c) == CacheFile("object", c)

(***************************************************************************)
(* generate_images                                                         *)
(***************************************************************************)
TopN == 120
SizeLow == 18
SizeHigh == 120
SizeUniform == 28

\* sorted(..., reverse=True) on the counts: stable, so equal counts keep the
\* order of the mapping.
RECURSIVE SortDesc(_)
SortDesc(c) ==
    IF c = <<>> THEN <<>>
    ELSE LET m == Max({c[i].count : i \in 1..Len(c)})
             k == Min({i \in 1..Len(c) : c[i].count = m})
         IN  <<c[k]>> \o SortDesc(SubSeq(c, 1, k - 1) \o SubSeq(c, k + 1, Len(c)))

\* counter.most_common(n)
MostCommon(c, n) == SubSeq(SortDesc(c), 1, Min({n, Len(c)}))

\* norm_size scaling by 120 where the code scales by 120 - 18.
NormSizeFullScale(v, fmin, fmax) ==
    IF fmax = fmin THEN SizeUniform
    ELSE SizeLow + ((v - fmin) * SizeHigh) \div (fmax - fmin)

\* norm_size(v): int(18 + (v - fmin) / (fmax - fmin) * (120 - 18)), and 28
\* when fmax == fmin. The float product and the exact quotient have the same
\* integer part for every fmax - fmin below 6000.
NormSize(v, fmin, fmax) ==
    IF fmax = fmin THEN SizeUniform
    ELSE SizeLow + ((v - fmin) * (SizeHigh - SizeLow)) \div (fmax - fmin)

\* The font size of each selected term, in the order of the selection.
SizesOf(top) ==
    LET freqs == {top[i].count : i \in 1..Len(top)}
    IN  [i \in 1..Len(top) |-> NormSize(top[i].count, Min(freqs), Max(freqs))]

Attempt(strategy, result) == [strategy |-> strategy, result |-> result]

NoResult == [png |-> FALSE, pdf |-> FALSE, method |-> "none"]

\* How the try block of the primary strategy ends: the import of wordcloud
\* (which imports Pillow), generate_from_frequencies (which refuses an empty
\* mapping), the mkdir of the output directory and to_file all have to
\* succeed; the PDF conversion inside it is on its own try.
PrimaryOutcome ==
    IF env.wordcloud /\ env.pillow # "none" /\ counter # <<>>
       /\ env.outDir # "blocked"
    THEN "ok" ELSE "failed"

\* The primary strategy, once; after a success control goes to `after`.
PrimaryStep(after) ==
    /\ UNCHANGED extraVars
    /\ pc = "primary"
    /\ tried' = Append(tried, Attempt("primary", PrimaryOutcome))
    /\ IF PrimaryOutcome = "ok"
       THEN /\ png' = TRUE
            /\ env' = [env EXCEPT !.outDir = "exists", !.pdfFile = @ \/ env.pdf]
            /\ res' = [png |-> TRUE, pdf |-> env.pdfFile \/ env.pdf,
                       method |-> "wordcloud"]
            /\ pc' = after
       ELSE /\ pc' = "fallback"
            /\ UNCHANGED <<env, res, png>>
    /\ UNCHANGED <<store, pre, batch, path, cache, bib, counter, extracted,
                   rc, sizes>>

\* A primary strategy that hands over to the fallback although it succeeded.
TryPrimaryThenFallback == PrimaryStep("fallback")

\* Lines 212-226: the primary strategy; its return ends the call.
TryPrimary == PrimaryStep("returned")

\* How the fallback ends: "unavailable" without Pillow; an empty selection is
\* saved at once, into the directory as it is; a populated one is measured
\* with draw.textsize, the directory is made, and the image saved.
FallbackOutcome ==
    IF env.pillow = "none" THEN "unavailable"
    ELSE IF MostCommon(counter, TopN) = <<>>
    THEN (IF env.outDir = "exists" THEN "empty" ELSE "raised")
    ELSE IF env.pillow = "notextsize" \/ env.outDir = "blocked" THEN "raised"
    ELSE "ok"

\* Lines 227-284: the Pillow fallback, once.
TryFallback ==
    /\ UNCHANGED extraVars
    /\ pc = "fallback"
    /\ tried' = Append(tried, Attempt("fallback", FallbackOutcome))
    /\ CASE FallbackOutcome = "unavailable" ->
              /\ res' = [png |-> FALSE, pdf |-> FALSE, method |-> "error"]
              /\ pc' = "returned"
              /\ UNCHANGED <<env, png, sizes>>
         [] FallbackOutcome = "empty" ->
              /\ res' = [png |-> TRUE, pdf |-> FALSE, method |-> "pillow_empty"]
              /\ png' = TRUE
              /\ pc' = "returned"
              /\ UNCHANGED <<env, sizes>>
         [] FallbackOutcome = "raised" ->
              /\ pc' = "raised"
              /\ UNCHANGED <<env, res, png, sizes>>
         [] FallbackOutcome = "ok" ->
              /\ sizes' = SizesOf(MostCommon(counter, TopN))
              /\ png' = TRUE
              /\ env' = [env EXCEPT !.outDir = "exists", !.pdfFile = @ \/ env.pdf]
              /\ res' = [png |-> TRUE, pdf |-> env.pdfFile \/ env.pdf,
                         method |-> "pillow_fallback"]
              /\ pc' = "returned"
    /\ UNCHANGED <<store, pre, batch, path, cache, bib, counter, extracted, rc>>


(***************************************************************************)
(* main                                                                    *)
(***************************************************************************)
\* Lines 300-308: parse_bib_files (nothing without bibtexparser) and the merge
\* of what it found; a merge that raises (a store that cannot be read) is
\* passed over.
MainMerge ==
    /\ UNCHANGED extraVars
    /\ pc = "main"
    /\ LET new == IF env.bibtex THEN bib ELSE <<>>
       IN  IF new = <<>> \/ (store.exists /\ ~store.readable)
           THEN UNCHANGED <<store, pre, batch, path>>
           ELSE /\ store' = IF env.pandas THEN MergedPandas(store, new)
                                           ELSE MergedCsv(store, new)
                /\ pre' = store
                /\ batch' = new
                /\ path' = IF env.pandas THEN "pandas" ELSE "csv"
    /\ pc' = "select"
    /\ UNCHANGED <<cache, bib, env, counter, extracted, res, rc, png, tried,
                   sizes>>

\* load_records_and_build as main calls it: pandas when it imports and can
\* read the store, the csv module otherwise.
Build(st) ==
    IF env.pandas /\ st.readable THEN BuildPandas(st) ELSE BuildCsv(st)

\* A selection that extracts whenever the store exists.
CacheFirstFresh(lf, st) ==
    IF st.exists THEN Build(st) ELSE lf.terms

\* Lines 310-317, given what load_frequencies returned: the cached mapping,
\* or the extraction when the cached mapping is empty and the store exists.
CacheFirst(lf, st) ==
    IF lf.terms = <<>> /\ st.exists THEN Build(st) ELSE lf.terms

\* Lines 310-317: the mapping of the run. An exception of load_frequencies
\* is not caught: main ends with it.
MainSelect ==
    /\ UNCHANGED extraVars
    /\ pc = "select"
    /\ IF cache.kind # "missing"
       THEN IF LoadFrequencies(cache).raised
            THEN /\ rc' = "raised"
                 /\ pc' = "done"
                 /\ UNCHANGED <<counter, extracted>>
            ELSE /\ counter' = CacheFirst(LoadFrequencies(cache), store)
                 /\ extracted' = (LoadFrequencies(cache).terms = <<>> /\ store.exists)
                 /\ pc' = "check"
                 /\ UNCHANGED rc
       ELSE /\ counter' = IF store.exists THEN Build(store) ELSE <<>>
            /\ extracted' = store.exists
            /\ pc' = "check"
            /\ UNCHANGED rc
    /\ UNCHANGED <<store, pre, batch, path, cache, bib, env, res, png, tried,
                   sizes>>

\* Lines 319-327: no terms, return 1; otherwise save_frequencies (a failure to
\* write is a warning) and go on to generate_images.
MainCheck ==
    /\ UNCHANGED extraVars
    /\ pc = "check"
    /\ IF counter = <<>>
       THEN /\ rc' = "1"
            /\ pc' = "done"
            /\ UNCHANGED cache
       ELSE /\ cache' = IF env.cacheWritable THEN SavedFrequencies(counter)
                                              ELSE cache
            /\ pc' = "primary"
            /\ UNCHANGED rc
    /\ UNCHANGED <<store, pre, batch, path, bib, env, counter, extracted, res,
                   png, tried, sizes>>

\* Line 331: return 0, whatever generate_images returned.
ReturnCode == "0"

\* Lines 329-331: generate_images returned.
MainReturn ==
    /\ UNCHANGED extraVars
    /\ pc = "returned"
    /\ rc' = ReturnCode
    /\ pc' = "done"
    /\ UNCHANGED <<store, pre, batch, path, cache, bib, env, counter,
                   extracted, res, png, tried, sizes>>

\* Line 329: generate_images raised, and nothing in main catches it.
MainRaise ==
    /\ UNCHANGED extraVars
    /\ pc = "raised"
    /\ rc' = "raised"
    /\ pc' = "done"
    /\ UNCHANGED <<store, pre, batch, path, cache, bib, env, counter,
                   extracted, res, png, tried, sizes>>

\* The data directories and environments a run is started in.
RunStores ==
    {NoFile, OneRowStore(AbsData, KwAi), OneRowStore(KwAi, Empty),
     [OneRowStore(AbsData, KwAi) EXCEPT !.readable = FALSE]}

RunCaches ==
    {NoCache, CacheFile("invalid", <<>>), CacheFile("nonobject", <<>>),
     CacheFile("noterms", <<>>), CacheFile("badterms", <<>>),
     CacheFile("object", <<>>),
     CacheFile("object", <<[word |-> WModels, count |-> 1],
                           [word |-> WLearning, count |-> 3]>>)}

RunBibs ==
    {<<>>, <<[id |-> IdB, title |-> TitleX, abstract |-> WModels,
              keywords |-> KwAi]>>}

RenderEnvs ==
    [pandas : {FALSE}, bibtex : {FALSE}, wordcloud : BOOLEAN,
     pillow : {"none", "ok", "notextsize"}, cacheWritable : {TRUE},
     outDir : {"exists", "missing", "blocked"}, pdf : BOOLEAN,
     pdfFile : BOOLEAN]

RunEnvs ==
    [pandas : BOOLEAN, bibtex : BOOLEAN, wordcloud : BOOLEAN,
     pillow : {"none", "ok", "notextsize"}, cacheWritable : BOOLEAN,
     outDir : {"exists", "missing", "blocked"}, pdf : BOOLEAN,
     pdfFile : {FALSE}]

InitRun ==
    /\ ExtraIdle
    /\ store \in RunStores
    /\ pre = NoFile
    /\ batch = <<>>
    /\ path = "none"
    /\ cache \in RunCaches
    /\ bib \in RunBibs
    /\ env \in RunEnvs
    /\ pc = "main"
    /\ counter = <<>>
    /\ extracted = FALSE
    /\ res = NoResult
    /\ rc = "none"
    /\ png = FALSE
    /\ tried = <<>>
    /\ sizes = <<>>

NextRun ==
    \/ MainMerge
    \/ MainSelect
    \/ MainCheck
    \/ TryPrimary
    \/ TryFallback
    \/ MainReturn
    \/ MainRaise

SpecRun == InitRun /\ [][NextRun]_vars

(***************************************************************************)
(* generate_images applied to bounded mappings.                            *)
(***************************************************************************)
MaxTerms == 3
MaxCount == 4

TermWords == <<WModels, WLearning, WDeep, WNetworks, WMachine>>

RenderCounters ==
    {[i \in 1..k |-> [word |-> TermWords[i], count |-> f[i]]] :
        k \in 0..MaxTerms, f \in [1..MaxTerms -> 1..MaxCount]}

InitRender ==
    /\ ExtraIdle
    /\ store = NoFile
    /\ pre = NoFile
    /\ batch = <<>>
    /\ path = "none"
    /\ cache = NoCache
    /\ bib = <<>>
    /\ env \in RenderEnvs
    /\ pc = "primary"
    /\ counter \in RenderCounters
    /\ extracted = FALSE
    /\ res = NoResult
    /\ rc = "none"
    /\ png = FALSE
    /\ tried = <<>>
    /\ sizes = <<>>

NextRender == TryPrimary \/ TryFallback

SpecRender == InitRender /\ [][NextRender]_vars


(***************************************************************************)
(* generate_images: the packing loop of the fallback layout.               *)
(***************************************************************************)
MaxItems == 3

CanvasW == 1400
CanvasH == 900
Padding == 8

\* What draw.textsize can measure for an item: a width and a height in
\* pixels.  The widths make one, two or no item fit a row; the heights make
\* one or two rows fit the canvas.
ItemWidths == {500, 700, 1500}
ItemHeights == {300, 500}
ItemSizes == [w : ItemWidths, h : ItemHeights]

\* The state before the first iteration of the loop over the items.
StartLayout(items) ==
    [items |-> items, i |-> 1, x |-> Padding, y |-> Padding, maxRowH |-> 0,
     drawn |-> <<>>, stopped |-> FALSE]

\* Whether the item does not fit the rest of the row at x.
RowFull(x, w) == x + w + Padding > CanvasW

\* Whether the item does not fit under y.
CanvasFull(y, h) == y + h + Padding > CanvasH

\* One iteration of the loop: wrap if the row is full, stop if the canvas
\* is full, otherwise draw at the cursor and advance it.
PackStep(l) ==
    LET it == l.items[l.i]
        wrap == RowFull(l.x, it.w)
        x1 == IF wrap THEN Padding ELSE l.x
        y1 == IF wrap THEN l.y + l.maxRowH + Padding ELSE l.y
        h1 == IF wrap THEN 0 ELSE l.maxRowH
    IN  IF CanvasFull(y1, it.h)
        THEN [l EXCEPT !.x = x1, !.y = y1, !.maxRowH = h1, !.stopped = TRUE]
        ELSE [l EXCEPT !.x = x1 + it.w + Padding, !.y = y1,
                       !.maxRowH = IF it.h > h1 THEN it.h ELSE h1,
                       !.drawn = Append(@, [n |-> l.i, x |-> x1, y |-> y1,
                                            w |-> it.w, h |-> it.h]),
                       !.i = @ + 1]

InitPack ==
    /\ store = NoFile /\ pre = NoFile /\ batch = <<>> /\ path = "none"
    /\ cache = NoCache /\ bib = <<>> /\ env = QuietEnv
    /\ counter = <<>> /\ extracted = FALSE /\ res = NoResult /\ rc = "none"
    /\ png = FALSE /\ tried = <<>> /\ sizes = <<>>
    /\ inv = <<>> /\ serial = TRUE /\ runs = NoRuns
    /\ pc = "pack"
    /\ \E items \in SeqsUpTo(ItemSizes, MaxItems) : lay = StartLayout(items)

PackItem ==
    /\ pc = "pack"
    /\ ~lay.stopped
    /\ lay.i <= Len(lay.items)
    /\ lay' = PackStep(lay)
    /\ UNCHANGED <<mergeVars, runVars, inv, serial, runs>>

NextPack == PackItem

SpecPack == InitPack /\ [][NextPack]_vars

(***************************************************************************)
(* merge_new_entries_into_records called by invocations that run at the    *)
(* same time on one data directory: each reads the whole store, and later  *)
(* rewrites it from what it read.                                          *)
(***************************************************************************)
Procs == {1, 2}

\* What an invocation holds in `rows` after reading the store.
ReadRows(st, pandas) ==
    IF ~st.exists THEN <<>>
    ELSE IF pandas THEN PandasRead(st.rows) ELSE CsvRead(st.rows)

\* The store after an invocation that read `rows` has gone through its loop
\* and its write: the pandas branch writes only when it added a row, the csv
\* branch always.
Rewritten(st, rows, entries, pandas) ==
    LET new == AppendedRows(rows, entries)
    IN  IF pandas /\ Len(new) = 0
        THEN st
        ELSE [exists |-> TRUE, readable |-> TRUE, rows |-> rows \o new]

\* The stores the invocations can find.
ConcStores ==
    {NoFile,
     [exists |-> TRUE, readable |-> TRUE,
      rows |-> <<[id |-> IdA, title |-> TitleX, abstract |-> AbsData,
                  keywords |-> KwAi]>>]}

InitConc ==
    /\ store \in ConcStores
    /\ pre = store
    /\ batch = <<>> /\ path = "none"
    /\ cache = NoCache /\ bib = <<>>
    /\ \E b \in BOOLEAN : env = [QuietEnv EXCEPT !.pandas = b]
    /\ counter = <<>> /\ extracted = FALSE /\ res = NoResult /\ rc = "none"
    /\ png = FALSE /\ tried = <<>> /\ sizes = <<>>
    /\ lay = NoLayout /\ runs = NoRuns
    /\ pc = "conc"
    /\ inv \in [Procs -> [pc : {"start"}, entries : Batches, rows : {<<>>}]]
    /\ serial = TRUE

\* An invocation reads the store (lines 126-132, or 150-155 without pandas).
MergeRead(p) ==
    /\ pc = "conc"
    /\ inv[p].pc = "start"
    /\ inv' = [inv EXCEPT ![p].pc = "read",
                          ![p].rows = ReadRows(store, env.pandas)]
    /\ serial' = (serial /\ \A q \in Procs \ {p} : inv[q].pc # "read")
    /\ UNCHANGED <<mergeVars, runVars, lay, runs>>

\* An invocation appends its new rows to what it read and rewrites the store
\* (lines 134-143, or 157-170 without pandas).
MergeWrite(p) ==
    /\ pc = "conc"
    /\ inv[p].pc = "read"
    /\ store' = Rewritten(store, inv[p].rows, inv[p].entries, env.pandas)
    /\ inv' = [inv EXCEPT ![p].pc = "done"]
    /\ UNCHANGED <<pre, batch, path, runVars, lay, serial, runs>>

NextConc == \E p \in Procs : MergeRead(p) \/ MergeWrite(p)

SpecConc == InitConc /\ [][NextConc]_vars

(***************************************************************************)
(* Successive runs of main on one data directory, with bibliography files  *)
(* added to it and the cache file taken away between the runs.             *)
(***************************************************************************)
MaxRuns == 2
MaxUploads == 1

RunsStores == {NoFile, OneRowStore(AbsData, KwAi)}

RunsCaches ==
    {NoCache, CacheFile("object", <<>>),
     CacheFile("object", <<[word |-> WModels, count |-> 1],
                           [word |-> WLearning, count |-> 3]>>)}

RunsEnvs ==
    [pandas : BOOLEAN, bibtex : BOOLEAN, wordcloud : BOOLEAN,
     pillow : {"none", "ok", "notextsize"}, cacheWritable : BOOLEAN,
     outDir : {"exists"}, pdf : {FALSE}, pdfFile : {FALSE}]

InitRuns ==
    /\ store \in RunsStores
    /\ pre = NoFile /\ batch = <<>> /\ path = "none"
    /\ cache \in RunsCaches
    /\ bib = <<>>
    /\ env \in RunsEnvs
    /\ pc = "main"
    /\ counter = <<>> /\ extracted = FALSE /\ res = NoResult /\ rc = "none"
    /\ png = FALSE /\ tried = <<>> /\ sizes = <<>>
    /\ lay = NoLayout /\ inv = <<>> /\ serial = TRUE
    /\ runs = [NoRuns EXCEPT !.n = 1]

\* Whether the run that has just ended returned 0 after save_frequencies
\* wrote its mapping, and the file it wrote is still there.
SucceededAndWrote ==
    rc = ReturnCode /\ env.cacheWritable /\ cache = SavedFrequencies(counter)

\* main is started again on the same data directory: the files stay, the
\* variables of the run start afresh.
Restart ==
    /\ pc = "done"
    /\ runs.n < MaxRuns
    /\ runs' = IF ~runs.succeeded /\ SucceededAndWrote
               THEN [n |-> runs.n + 1, succeeded |-> TRUE, sticky |-> cache,
                     rowsThen |-> Len(store.rows)]
               ELSE [runs EXCEPT !.n = @ + 1]
    /\ pc' = "main"
    /\ counter' = <<>>
    /\ extracted' = FALSE
    /\ res' = NoResult
    /\ rc' = "none"
    /\ tried' = <<>>
    /\ sizes' = <<>>
    /\ UNCHANGED <<store, pre, batch, path, cache, bib, env, png, lay, inv,
                   serial>>

\* upload_bib.py, or the upload endpoint: one more bibliography file in the
\* data directory, which the next run parses with the others.
UploadBib(e) ==
    /\ pc = "done"
    /\ Len(bib) < MaxUploads
    /\ bib' = Append(bib, e)
    /\ UNCHANGED <<store, pre, batch, path, cache, env, pc, counter,
                   extracted, res, rc, png, tried, sizes, extraVars>>

\* The cache file is removed, or replaced by one with no terms.
RemoveCache ==
    /\ pc = "done"
    /\ cache.kind # "missing"
    /\ cache' \in {NoCache, CacheFile("object", <<>>)} \ {cache}
    /\ runs' = [runs EXCEPT !.succeeded = FALSE]
    /\ UNCHANGED <<store, pre, batch, path, bib, env, pc, counter, extracted,
                   res, rc, png, tried, sizes, lay, inv, serial>>

NextRuns ==
    \/ MainMerge
    \/ MainSelect
    \/ MainCheck
    \/ TryPrimary
    \/ TryFallback
    \/ MainReturn
    \/ MainRaise
    \/ Restart
    \/ \E e \in Entries : UploadBib(e)
    \/ RemoveCache

SpecRuns == InitRuns /\ [][NextRuns]_vars

(***************************************************************************)
(* Claims about the merge.                                                 *)
(***************************************************************************)
NoDuplicateIds(rows) ==
    \A i, j \in 1..Len(rows) : rows[i].id = rows[j].id => i = j

Merged == path # "none"

\* C1: after a merge the store holds no two records with the same id, and its
\* length is the number of records it held before plus the number of distinct
\* ids of the batch that it did not hold.
C1_NoDuplicatesAndLength ==
    Merged =>
        /\ NoDuplicateIds(store.rows)
        /\ Len(store.rows) =
              Len(pre.rows) + Cardinality(Ids(batch) \ Ids(pre.rows))

\* C2: no merge deletes or updates a row the store already held: the rows
\* that were there are still there, in place and field for field; a batch
\* whose ids the store all held leaves the store as it was.
C2_ExistingRowsUntouched ==
    Merged =>
        /\ Len(store.rows) >= Len(pre.rows)
        /\ \A i \in 1..Len(pre.rows) : store.rows[i] = pre.rows[i]
        /\ (pre.exists /\ Ids(batch) \subseteq Ids(pre.rows)) => store = pre

\* C3: the rows a merge appends are the batch's entries with an id the store
\* did not hold, in the order first met, each with the title, abstract and
\* keywords of the first entry of the batch that carries its id.
C3_FirstSeenWins ==
    Merged =>
        SubSeq(store.rows, Len(pre.rows) + 1, Len(store.rows)) =
            SelectSeq(NewByIdFirstValue(batch),
                      LAMBDA e : e.id \notin Ids(pre.rows))

(***************************************************************************)
(* Claims about the extraction.                                            *)
(***************************************************************************)
AsMapping(c) == {<<c[i].word, c[i].count>> : i \in 1..Len(c)}

ScenarioLoaded == pc = "loaded" /\ store = ScenarioStore

\* C6 as stated: extraction over the two records of the scenario yields
\* exactly learning:2, machine:1, models:2, deep:1, networks:1, ai:2.
C6_ScenarioCountsWithAi ==
    ScenarioLoaded =>
        AsMapping(counter) =
            {<<WLearning, 2>>, <<WMachine, 1>>, <<WModels, 2>>, <<WDeep, 1>>,
             <<WNetworks, 1>>, <<WAi, 2>>}

\* C6 as amended: extraction over the two records of the scenario yields
\* exactly learning:2, machine:1, models:2, deep:1, networks:1 ("ai" has two
\* characters and is no token); and whatever the store, every counted term
\* has at least three characters, is no stopword and is not purely numeric.
C6_ScenarioCounts ==
    /\ ScenarioLoaded =>
        AsMapping(counter) =
            {<<WLearning, 2>>, <<WMachine, 1>>, <<WModels, 2>>, <<WDeep, 1>>,
             <<WNetworks, 1>>}
    /\ pc = "loaded" =>
        \A w \in Words(counter) :
            Len(w) >= 3 /\ w \notin STOP /\ \E i \in 1..Len(w) : w[i] \notin Digits

C6_Witness == ScenarioLoaded /\ CountOf(counter, WLearning) = 2

(***************************************************************************)
(* Claims about a run of main.                                             *)
(***************************************************************************)
CacheNonEmpty(c) == c.kind = "object" /\ c.terms # <<>>

\* C4: the mapping of a run is chosen once, by priority: the cached mapping
\* when the cache exists and its terms are non-empty, and then extraction is
\* not run; otherwise the extraction over the store when the store exists;
\* otherwise the empty mapping, and then no rendering strategy is invoked and
\* the run returns its "no input data" status without raising.
C4_SelectionPriority ==
    /\ pc = "check" =>
         /\ counter = IF CacheNonEmpty(cache) THEN cache.terms
                      ELSE IF store.exists THEN Build(store) ELSE <<>>
         /\ CacheNonEmpty(cache) => ~extracted
    /\ (pc = "done" /\ ~CacheNonEmpty(cache) /\ store.exists) => extracted
    /\ (pc = "done" /\ ~CacheNonEmpty(cache) /\ ~store.exists) =>
         (rc = "1" /\ tried = <<>> /\ counter = <<>>)

\* C5: load_frequencies never raises: for a cache that is missing, that is no
\* JSON, or that is JSON without a terms mapping, it returns the empty
\* mapping, so that the run goes on to the extraction over the store.
C5_LoadNeverFails ==
    /\ pc \notin {"main", "select"} => ~(rc = "raised" /\ tried = <<>>)
    /\ (pc = "done" /\ cache.kind \in {"invalid", "nonobject", "noterms", "badterms"}
          /\ store.exists) => extracted

\* C7: the status of a run is 0 exactly when the run wrote the raster: a run
\* whose result has no raster path does not return 0, and a run that wrote
\* the raster returns 0.
C7_FailedIffNoArtifact ==
    pc = "done" => ((rc = "0") <=> png)

\* C8: in every run the primary strategy is attempted at most once and
\* first, the fallback at most once and only after the primary attempt
\* failed; a run without data attempts neither and returns its failure
\* status; a run with data attempts the primary; a result of the primary
\* strategy is never followed by a fallback attempt.
C8_StrategiesOnceInOrder ==
    /\ Len(tried) <= 2
    /\ \A i \in 1..Len(tried) :
         tried[i].strategy = IF i = 1 THEN "primary" ELSE "fallback"
    /\ Len(tried) = 2 => tried[1].result = "failed"
    /\ res.method = "wordcloud" => (Len(tried) = 1 /\ tried[1].result = "ok")
    /\ res.method \in {"pillow_fallback", "pillow_empty", "error"} => Len(tried) = 2
    /\ (pc = "done" /\ rc = "1") => (tried = <<>> /\ res = NoResult /\ counter = <<>>)
    /\ pc \in {"primary", "fallback", "returned", "raised"} => counter # <<>>
    /\ pc \in {"fallback", "returned", "raised"} => tried # <<>>
    /\ (pc = "done" /\ rc = "0") => (tried # <<>> /\ tried[Len(tried)].result # "failed")

C8_Witness ==
    /\ pc = "done"
    /\ rc = "0"
    /\ Len(tried) = 2
    /\ tried[1].result = "failed"
    /\ tried[2].result = "ok"

(***************************************************************************)
(* Claims about generate_images.                                           *)
(***************************************************************************)
\* C9: the fallback on an empty mapping always produces a result: with
\* Pillow installed and an output directory that the populated path can use
\* (one that exists, or one that does not exist yet), the call returns,
\* without raising, the method "pillow_empty" and the raster written.
C9_EmptyFallbackAlwaysRenders ==
    (pc \in {"returned", "raised"} /\ counter = <<>> /\ env.pillow # "none"
        /\ env.outDir # "blocked") =>
      (pc = "returned" /\ res.method = "pillow_empty" /\ res.png /\ png)

Selection == MostCommon(counter, TopN)
SelectedCounts == {Selection[i].count : i \in 1..Len(Selection)}

\* C10: in the fallback layout, when all selected counts are equal every item
\* has size 28; otherwise the size n of an item with count v is the integer
\* part of 18 + (v - min) / (max - min) * 102, it lies in 18..120, it is 18
\* for the minimum count and 120 for the maximum, and it does not decrease
\* as the count grows.
C10_FontSizes ==
    res.method = "pillow_fallback" =>
      LET lo == Min(SelectedCounts)
          hi == Max(SelectedCounts)
      IN  /\ Len(sizes) = Len(Selection)
          /\ \A i \in 1..Len(sizes) :
               IF lo = hi THEN sizes[i] = 28
               ELSE /\ (sizes[i] - 18) * (hi - lo) <= (Selection[i].count - lo) * 102
                    /\ (Selection[i].count - lo) * 102 < (sizes[i] - 17) * (hi - lo)
                    /\ sizes[i] >= 18 /\ sizes[i] <= 120
                    /\ Selection[i].count = lo => sizes[i] = 18
                    /\ Selection[i].count = hi => sizes[i] = 120
          /\ \A i, j \in 1..Len(sizes) :
               Selection[i].count <= Selection[j].count => sizes[i] <= sizes[j]

C10_Witness ==
    /\ res.method = "pillow_fallback"
    /\ \E i \in 1..Len(sizes) : sizes[i] > 18 /\ sizes[i] < 120

Drawn == {lay.drawn[k] : k \in 1..Len(lay.drawn)}

\* C11: every item the packing loop draws lies inside the 1400x900 canvas
\* with padding 8 (x + w + 8 <= 1400 and y + h + 8 <= 900), whatever the
\* measured sizes; the drawn items are a prefix of the selection; and rows do
\* not overlap: an item of a lower row starts at least the padding below
\* every item of the rows above it.
C11_DrawnInsideCanvas ==
    pc = "pack" =>
      /\ \A d \in Drawn : /\ d.x + d.w + 8 <= 1400
                          /\ d.y + d.h + 8 <= 900
      /\ \A k \in 1..Len(lay.drawn) : lay.drawn[k].n = k
      /\ \A d, e \in Drawn : d.y < e.y => d.y + d.h + 8 <= e.y

\* The parts of C11 the loop does keep: the vertical bound, the horizontal
\* bound of an item that fits a row, the prefix and the separation of rows.
C11_DrawnInsideCanvasIfFits ==
    pc = "pack" =>
      /\ \A d \in Drawn : /\ d.w + 2 * 8 <= 1400 => d.x + d.w + 8 <= 1400
                          /\ d.y + d.h + 8 <= 900
      /\ \A k \in 1..Len(lay.drawn) : lay.drawn[k].n = k
      /\ \A d, e \in Drawn : d.y < e.y => d.y + d.h + 8 <= e.y

C11_Witness ==
    /\ pc = "pack"
    /\ lay.stopped
    /\ \E d, e \in Drawn : d.y < e.y

AllDone == \A p \in Procs : inv[p].pc = "done"

BatchIds(p) == {inv[p].entries[k].id : k \in 1..Len(inv[p].entries)}

\* C12, the serialized part: when the invocations on a data directory run
\* one after the other, every id merged by any of them is in the store
\* after all of them have finished.
C12_SerializedKeepsMerged ==
    (pc = "conc" /\ AllDone /\ serial) =>
        \A p \in Procs : BatchIds(p) \subseteq Ids(store.rows)

\* The same without the data-frame reader, whose rewriting of cells is what
\* C1 and C2 are about.
C12_SerializedKeepsMergedCsv ==
    (pc = "conc" /\ AllDone /\ serial /\ ~env.pandas) =>
        \A p \in Procs : BatchIds(p) \subseteq Ids(store.rows)

\* C12, the concurrent part: both invocations read the store, then both
\* rewrite it, and the store lacks an id that one of them merged.
C12_LostUpdate ==
    /\ pc = "conc" /\ AllDone /\ ~serial /\ ~env.pandas
    /\ \E p \in Procs : ~(BatchIds(p) \subseteq Ids(store.rows))

Rendering == pc \in {"primary", "fallback", "returned", "raised"}

\* C13: once a run has returned 0 after writing a non-empty cache, and for
\* as long as that file is neither removed nor emptied, every later run
\* reaches generate_images with exactly the cached mapping and leaves the
\* cache with the same content, also when bibliography entries were merged
\* into the store in between.
C13_CacheIsSticky ==
    runs.succeeded =>
      /\ CacheNonEmpty(runs.sticky)
      /\ cache = runs.sticky
      /\ Rendering => counter = runs.sticky.terms
      /\ pc = "done" => rc \in {"0", "raised"} /\ counter = runs.sticky.terms

C13_Witness ==
    /\ runs.succeeded
    /\ pc = "done" /\ rc = "0"
    /\ Len(store.rows) > runs.rowsThen
    /\ counter # Build(store)

====
